---- MODULE Spec2Model ----
(***************************************************************************)
(* Backend of react-iframe-editor (backend/server.js): the dev-server      *)
(* child process, the npm install step and the three HTTP endpoints        *)
(* init-project, start-dev-server and stop-dev-server, as they run on one  *)
(* Node event loop.  Every action is one run-to-completion piece of a      *)
(* handler: the code between two awaits, or one event callback.            *)
(* Chat client (Chat.tsx, the Chat component of Panel.tsx, the project     *)
(* store): sendMessage and pollJob against the chat server and its job     *)
(* registry.  Spec is the backend, SpecProjects the backend with a client  *)
(* that switches projects, SpecChat the chat client.                       *)
(***************************************************************************)
EXTENDS Integers, Sequences, FiniteSets, TLC

\* ---- bounds ----
MaxStarts == 2       \* start-dev-server requests in one behaviour
MaxSends == 2        \* sendMessage calls in one behaviour
MaxTime == 1         \* ticks of the clock in one behaviour
MaxSockets == 3      \* WebSockets created by PanelPreview in one behaviour
MaxLogs == 1002      \* log events received between two Clears
MaxTimers == 4       \* timers set by PanelCode in one behaviour

\* ---- program constants ----
REACT_DEV_PORT == 3002
\* for (let i = 0; i < 60; i++) in pollJob
POLL_ATTEMPTS == 60
\* next.length > 1000 ? next.slice(next.length - 1000) : next
LOG_LIMIT == 1000
\* schedule(7000)
REFRESH_DELAY == 7000

StartReqs == 1..MaxStarts
\* the child spawned by start request r is identified by r
Procs == StartReqs
Null == 0
Sends == 1..MaxSends
\* a job is identified by the sendMessage call whose request created it
Jobs == Sends
Sockets == 1..MaxSockets
Timers == 1..MaxTimers
\* the projects of the client
Projects == {"A", "B"}
\* no exit code yet
NoCode == 2

VARIABLES
  reactDevServer,    \* the module-level handle: Null or a process
  proc,              \* the dev-server children: state and what SIGTERM did to them
  dirExists,         \* REACT_PROJECT_PATH exists on disk
  scriptsInstalled,  \* node_modules/react-scripts/package.json exists
  startReq,          \* the start-dev-server requests and their handler position
  initReq,           \* the init-project handler: its position and last response
  backendUp,         \* the backend process has not exited
  stopLog,           \* the stop requests since the last other event ("none",
                     \* "one", "more") and the last stop response
  started,           \* a start spawned a child, answered success while the child
                     \* was alive, and no stop was requested since
  seq,               \* how far an awaited sequence init-project, start-dev-server,
                     \* stop-dev-server has come with nothing else in between
  selected,          \* the project selected in the client, for which it issues
                     \* its requests
  component,         \* the chat component that is mounted: "none", "Chat.tsx"
                     \* (history in the project store) or "Panel.tsx" (local history)
  currentProject,    \* store: null (NoProject) or the active project
  projects,          \* store: the projects by name
  messages,          \* Panel.tsx: const [messages, setMessages] = useState(...)
  isSending,         \* const [isSending, setIsSending] = useState(false)
  isProcessingRef,   \* isProcessingRef.current
  send,              \* the sendMessage calls: position, status requests issued by
                     \* their pollJob while it runs, and how they ended
  jobs,              \* the job registry of the chat server, by job id
  fileUpdates,       \* the calls of onFileUpdate, by the sendMessage call they
                     \* belong to
  now,               \* the clock read by new Date()
  previewMounted,    \* PanelPreview is rendered
  previewUrl,        \* PanelPreview: the devServerUrl prop
  sock,              \* the log WebSockets PanelPreview has created, by number:
                     \* "none", "open" (connecting or open), "closing", "closed"
  wsRef,             \* PanelPreview: wsRef.current
  logs,              \* PanelPreview: const [logs, setLogs] = useState([])
  arrived,           \* the log events received since the last Clear
  codeState,         \* PanelCode: "none", "mounted", or "unmounted" (stopped)
  docVisible,        \* document.visibilityState === "visible"
  timer,             \* the timers set by PanelCode's schedule, by number: state
                     \* ("none", "pending", "fired", "cleared") and delay
  timerId,           \* PanelCode: the variable timerId of the effect
  inFlight           \* the calls of refreshFileTreeSilently not yet settled

\* the chat client and the chat server
chatVars == <<component, currentProject, projects, messages, isSending, isProcessingRef,
              send, jobs, fileUpdates>>

\* the clock and the panels of the editor
\* PanelPreview
previewVars == <<previewMounted, previewUrl, sock, wsRef, logs, arrived>>

\* PanelCode
codeVars == <<codeState, docVisible, timer, timerId, inFlight>>

panelVars == <<previewVars, codeVars>>

uiVars == <<now, panelVars>>

\* the client's state
clientVars == <<selected, chatVars, uiVars>>

\* the backend's state
backendVars == <<reactDevServer, proc, dirExists, scriptsInstalled, startReq, initReq,
                 backendUp, stopLog, started, seq>>

vars == <<reactDevServer, proc, dirExists, scriptsInstalled, startReq, initReq,
          backendUp, stopLog, started, seq, clientVars>>

Alive(p) == proc[p].st = "alive"
LiveProcs == {p \in Procs : Alive(p)}

NoResponse == [status |-> 0, url |-> <<>>]

\* `http://localhost:${REACT_DEV_PORT}`
devServerUrl == <<"http://localhost:", REACT_DEV_PORT>>

\* deps: what the handler learnt about the dependencies ("found" by the check,
\* "installed" or "failed" by its own install step); second: the request arrived
\* while started held; project: the project the client issued it for
IdleStart == [pc |-> "idle", resp |-> NoResponse, deps |-> "none", second |-> FALSE,
              project |-> "none"]

\* st: "none" before spawn, "alive", "exited" (also a failed spawn);
\* sig: what SIGTERM did to a live child
NoProc == [st |-> "none", sig |-> "none"]
Exited == [st |-> "exited", sig |-> "none"]

\* a field that a JSON answer does not carry
Absent == "undefined"

\* the greeting: createDefaultProject, and useState in Panel.tsx
Greeting == [role |-> "assistant", of |-> 0]

NoTimer == [st |-> "none", delay |-> 0]
IdleSend == [pc |-> "idle", polls |-> 0, end |-> "none"]
NoJob == [status |-> "none", display |-> Absent, updatedFile |-> Absent,
          updatedContent |-> Absent]

\* currentProject: null, and a name that is not a key of projects
NoProject == [name |-> "none", chatHistory |-> <<>>, code |-> "", lastModified |-> 0]

\* the store as created, no component mounted, no job
ChatInit ==
  /\ component = "none"
  /\ currentProject = NoProject
  /\ projects = [n \in Projects |-> NoProject]
  /\ messages = <<>>
  /\ isSending = FALSE
  /\ isProcessingRef = FALSE
  /\ send = [k \in Sends |-> IdleSend]
  /\ jobs = [j \in Jobs |-> NoJob]
  /\ fileUpdates = [k \in Sends |-> <<>>]

Init ==
  /\ ChatInit
  /\ reactDevServer = Null
  /\ proc = [p \in Procs |-> NoProc]
  /\ dirExists \in BOOLEAN
  /\ scriptsInstalled \in BOOLEAN
  /\ scriptsInstalled => dirExists
  /\ startReq = [r \in StartReqs |-> IdleStart]
  /\ initReq = [pc |-> "idle", status |-> 0, code |-> NoCode]
  /\ backendUp = TRUE
  /\ stopLog = [inRow |-> "none", status |-> 0]
  /\ started = FALSE
  /\ seq = "none"
  /\ selected = "A"
  /\ now = 0
  /\ previewMounted = FALSE
  /\ previewUrl = ""
  /\ sock = [s \in Sockets |-> "none"]
  /\ wsRef = Null
  /\ logs = <<>>
  /\ arrived = <<>>
  /\ codeState = "none"
  /\ docVisible = TRUE
  /\ timer = [t \in Timers |-> NoTimer]
  /\ timerId = Null
  /\ inFlight = 0

NotAStop == stopLog' = [inRow |-> "none", status |-> 0]

\* ---- start-dev-server ----

\* the existence check left out
ProjectExists_Always == TRUE

\* require('fs').existsSync(REACT_PROJECT_PATH)
ProjectExists == dirExists

\* the early return left out
AlreadyRunning_Never == FALSE

\* if (reactDevServer) return;
AlreadyRunning == reactDevServer # Null

StartOk == [status |-> 200, url |-> devServerUrl]
StartError(code) == [status |-> code, url |-> <<>>]

\* The request arrives: the handler runs up to its first real await,
\* the fs.access of checkReactScriptsInstalled.
StartBegin(r) ==
  /\ backendUp
  /\ startReq[r].pc = "idle"
  /\ LET seen == [startReq[r] EXCEPT !.second = started /\ dirExists,
                                      !.project = selected]
     IN startReq' = [startReq EXCEPT ![r] =
          IF ~ProjectExists
            THEN [seen EXCEPT !.pc = "done", !.resp = StartError(400)]
            ELSE IF AlreadyRunning
              THEN [seen EXCEPT !.pc = "done", !.resp = StartOk]
              ELSE [seen EXCEPT !.pc = "check"]]
  /\ seq' = IF seq = "ready" /\ ProjectExists /\ ~AlreadyRunning
              THEN "starting" ELSE "none"
  /\ NotAStop
  /\ UNCHANGED <<reactDevServer, proc, dirExists, scriptsInstalled, initReq,
                 backendUp, started, clientVars>>

\* reactDevServer = spawn(npmCommand, ['start'], {cwd: REACT_PROJECT_PATH, ...})
\* followed by the registration of the handlers.  A spawn that fails (ENOENT:
\* no npm, or no cwd) emits 'error' on the next tick, before any other request
\* is served, and the error handler resets the handle.
SpawnDevServer(r, ok) ==
  IF ok
    THEN /\ proc' = [proc EXCEPT ![r].st = "alive"]
         /\ reactDevServer' = r
         /\ UNCHANGED seq
    ELSE /\ proc' = [proc EXCEPT ![r].st = "exited"]
         /\ reactDevServer' = Null
         /\ seq' = "none"

SpawnOutcomes == IF dirExists THEN BOOLEAN ELSE {FALSE}

\* checkReactScriptsInstalled: fs.access succeeds iff the file is there
checkReactScriptsInstalled == scriptsInstalled

\* fs.access has answered: either install first, or spawn and wait 10 s
StartChecked(r) ==
  /\ backendUp
  /\ startReq[r].pc = "check"
  /\ IF checkReactScriptsInstalled
       THEN \E ok \in SpawnOutcomes :
              /\ SpawnDevServer(r, ok)
              /\ startReq' = [startReq EXCEPT ![r].pc = "grace", ![r].deps = "found"]
       ELSE /\ startReq' = [startReq EXCEPT ![r].pc = "install", ![r].deps = "missing"]
            /\ UNCHANGED <<proc, reactDevServer, seq>>
  /\ NotAStop
  /\ UNCHANGED <<dirExists, scriptsInstalled, initReq, backendUp, started, clientVars>>

\* the promise resolved whatever the exit code
InstallResolves_Always(code) == TRUE

\* installProcess.on('close'): if (code === 0) resolve() else reject();
\* installProcess.on('error') rejects as well (code -1 here)
InstallResolves(code) == code = 0

\* npm install exits with 0 only in an existing project directory
InstallCodes == IF dirExists THEN {0, 1, -1} ELSE {1, -1}

\* what a finished npm install leaves on disk
InstallEffect(code) == scriptsInstalled \/ code = 0

\* the install step of a start request ends (close with a code, or error)
StartInstallDone(r) ==
  /\ backendUp
  /\ startReq[r].pc = "install"
  /\ \E code \in InstallCodes :
       /\ scriptsInstalled' = InstallEffect(code)
       /\ IF InstallResolves(code)
            THEN \E ok \in SpawnOutcomes :
                   /\ SpawnDevServer(r, ok)
                   /\ startReq' = [startReq EXCEPT
                                     ![r].pc = "grace",
                                     ![r].deps = IF code = 0 THEN "installed" ELSE "failed"]
            ELSE /\ startReq' = [startReq EXCEPT ![r].pc = "done", ![r].deps = "failed",
                                                 ![r].resp = StartError(500)]
                 /\ seq' = "none"
                 /\ UNCHANGED <<proc, reactDevServer>>
  /\ NotAStop
  /\ UNCHANGED <<dirExists, initReq, backendUp, started, clientVars>>

\* the 10 s timer fires: startReactDevServer returns and the handler answers
\* with success
StartGraceDone(r) ==
  /\ backendUp
  /\ startReq[r].pc = "grace"
  /\ startReq' = [startReq EXCEPT ![r].pc = "done", ![r].resp = StartOk]
  /\ started' = (started \/ Alive(r))
  /\ seq' = IF seq = "starting" THEN "running" ELSE seq
  /\ NotAStop
  /\ UNCHANGED <<reactDevServer, proc, dirExists, scriptsInstalled, initReq, backendUp,
                 clientVars>>

\* ---- the child's events ----

\* a close handler that only logs
OnClose_KeepHandle(h) == h

\* reactDevServer.on('close', ...): reactDevServer = null
OnClose(h) == Null

\* a live child exits (a crash, or its reaction to SIGTERM) and its close event
\* is handled
ProcClose(p) ==
  /\ backendUp
  /\ Alive(p)
  /\ proc' = [proc EXCEPT ![p] = Exited]
  /\ reactDevServer' = OnClose(reactDevServer)
  /\ seq' = "none"
  /\ NotAStop
  /\ UNCHANGED <<dirExists, scriptsInstalled, startReq, initReq, backendUp, started,
                 clientVars>>

\* a child that outlived the backend exits; nobody handles the event
OrphanExit(p) ==
  /\ ~backendUp
  /\ Alive(p)
  /\ proc' = [proc EXCEPT ![p] = Exited]
  /\ UNCHANGED <<reactDevServer, dirExists, scriptsInstalled, startReq, initReq,
                 backendUp, stopLog, started, seq, clientVars>>

\* ---- stop-dev-server and shutdown ----

\* what SIGTERM does to a child: it will exit ("term"), or it ignores the signal
Signals == {"term", "ignored"}

\* if (reactDevServer) { reactDevServer.kill('SIGTERM'); reactDevServer = null; }
stopReactDevServer ==
  IF reactDevServer # Null
    THEN /\ \E s \in Signals : proc' = [proc EXCEPT ![reactDevServer].sig = s]
         /\ reactDevServer' = Null
    ELSE UNCHANGED <<proc, reactDevServer>>

\* an error answer when there was nothing to stop
StopStatus_ErrorWhenStopped(wasRunning) == IF wasRunning THEN 200 ELSE 400

\* res.json({ success: true, message: 'React dev server stopped' })
StopStatus(wasRunning) == 200

StopDevServer ==
  /\ backendUp
  /\ stopReactDevServer
  /\ stopLog' = [inRow |-> IF stopLog.inRow = "none" THEN "one" ELSE "more",
                 status |-> StopStatus(reactDevServer # Null)]
  /\ started' = FALSE
  /\ seq' = IF seq = "running" THEN "stopped" ELSE "none"
  /\ UNCHANGED <<dirExists, scriptsInstalled, startReq, initReq, backendUp, clientVars>>

\* process.on('SIGINT'): stopReactDevServer(); process.exit(0)
Sigint ==
  /\ backendUp
  /\ stopReactDevServer
  /\ backendUp' = FALSE
  /\ started' = FALSE
  /\ seq' = "none"
  /\ NotAStop
  /\ UNCHANGED <<dirExists, scriptsInstalled, startReq, initReq, clientVars>>

\* ---- init-project ----
\* One init-project request is served at a time; the next one may arrive once
\* the previous one is answered.

\* the request arrives: existsSync decides between fs.rm and fs.mkdir
InitBegin ==
  /\ backendUp
  /\ initReq.pc \in {"idle", "done"}
  /\ initReq' = [pc |-> IF dirExists THEN "rm" ELSE "mkdir", status |-> 0,
                 code |-> NoCode]
  /\ seq' = "none"
  /\ NotAStop
  /\ UNCHANGED <<reactDevServer, proc, dirExists, scriptsInstalled, startReq,
                 backendUp, started, clientVars>>

\* fs.rm(REACT_PROJECT_PATH, {recursive, force}) has finished
InitRmDone ==
  /\ backendUp
  /\ initReq.pc = "rm"
  /\ dirExists' = FALSE
  /\ scriptsInstalled' = FALSE
  /\ initReq' = [initReq EXCEPT !.pc = "mkdir"]
  /\ NotAStop
  /\ UNCHANGED <<reactDevServer, proc, startReq, backendUp, started, seq, clientVars>>

\* fs.mkdir(REACT_PROJECT_PATH, {recursive}), the writes of package.json and
\* of the entry files have finished and installDependencies() is started
InitWriteDone ==
  /\ backendUp
  /\ initReq.pc = "mkdir"
  /\ dirExists' = TRUE
  /\ initReq' = [initReq EXCEPT !.pc = "install"]
  /\ NotAStop
  /\ UNCHANGED <<reactDevServer, proc, scriptsInstalled, startReq, backendUp, started,
                 seq, clientVars>>

\* the catch block answers with success as well
InitResponse_AlwaysSuccess(resolved) == 200

\* try { ...; await installDependencies(); res.json({ success: true, ... }) }
\* catch (error) { res.status(500).json({ error: error.message }) }
InitResponse(resolved) == IF resolved THEN 200 ELSE 500

\* no start request is in flight and no child is alive
Quiet ==
  /\ \A r \in StartReqs : startReq[r].pc \in {"idle", "done"}
  /\ LiveProcs = {}

\* the install step of init-project ends
InitInstallDone ==
  /\ backendUp
  /\ initReq.pc = "install"
  /\ \E code \in InstallCodes :
       /\ scriptsInstalled' = InstallEffect(code)
       /\ initReq' = [pc |-> "done", status |-> InitResponse(InstallResolves(code)),
                      code |-> code]
  /\ seq' = IF initReq'.status = 200 /\ Quiet THEN "ready" ELSE "none"
  /\ NotAStop
  /\ UNCHANGED <<reactDevServer, proc, dirExists, startReq, backendUp, started,
                 clientVars>>

Next ==
  \/ \E r \in StartReqs : StartBegin(r)
  \/ \E r \in StartReqs : StartChecked(r)
  \/ \E r \in StartReqs : StartInstallDone(r)
  \/ \E r \in StartReqs : StartGraceDone(r)
  \/ \E p \in Procs : ProcClose(p)
  \/ \E p \in Procs : OrphanExit(p)
  \/ StopDevServer
  \/ Sigint
  \/ InitBegin
  \/ InitRmDone
  \/ InitWriteDone
  \/ InitInstallDone

Spec == Init /\ [][Next]_vars

\* the user selects another project in the client
SelectProject(x) ==
  /\ selected # x
  /\ selected' = x
  /\ UNCHANGED <<reactDevServer, proc, dirExists, scriptsInstalled, startReq, initReq,
                 backendUp, stopLog, started, seq, chatVars, uiVars>>

\* the backend serving a client that switches between its projects
NextProjects == Next \/ \E x \in Projects : SelectProject(x)

SpecProjects == Init /\ [][NextProjects]_vars

\* A child that reacts to SIGTERM exits; the timers and the file-system
\* callbacks of a running backend fire.  Nothing makes a child exit that
\* ignores the signal.
TermExit(p) == proc[p].sig = "term" /\ (ProcClose(p) \/ OrphanExit(p))

FairSpec ==
  /\ Spec
  /\ \A p \in Procs : WF_vars(TermExit(p))
  /\ \A r \in StartReqs : WF_vars(StartChecked(r) \/ StartInstallDone(r) \/ StartGraceDone(r))

TypeOK ==
  /\ reactDevServer \in Procs \cup {Null}
  /\ \A p \in Procs : /\ proc[p].st \in {"none", "alive", "exited"}
                      /\ proc[p].sig \in {"none", "term", "ignored"}
  /\ dirExists \in BOOLEAN /\ scriptsInstalled \in BOOLEAN /\ backendUp \in BOOLEAN
  /\ \A r \in StartReqs : startReq[r].pc \in {"idle", "check", "install", "grace", "done"}
  /\ initReq.pc \in {"idle", "rm", "mkdir", "install", "done"}
  /\ stopLog.inRow \in {"none", "one", "more"}
  /\ started \in BOOLEAN
  /\ seq \in {"none", "ready", "starting", "running", "stopped"}
  /\ selected \in Projects

\* ======================= properties of the backend =======================

\* the state of the program, without the bookkeeping of stop requests
progVars == <<reactDevServer, proc, dirExists, scriptsInstalled, startReq, initReq, backendUp>>

\* request r is received in this step
Received(r) == startReq[r].pc = "idle" /\ startReq'[r].pc # "idle"

\* process p is spawned in this step
SpawnedNow(p) == proc[p].st = "none" /\ proc'[p].st # "none"

\* C1: in every reachable state at most one dev-server child spawned by
\* startReactDevServer is alive.
C1_AtMostOneLiveProcess == Cardinality(LiveProcs) <= 1

\* C2 (as claimed): a start received on an existing project after an earlier
\* start spawned a child and returned success, with no stop in between, spawns
\* no process and returns success with the preview URL.
C2_TwoStartsSpawnOnce ==
  \A r \in StartReqs :
    startReq[r].second =>
      /\ proc[r].st = "none"
      /\ startReq[r].pc = "done" => startReq[r].resp = StartOk

\* C2 (amended): a start received on an existing project after an earlier start
\* returned success, with no stop in between and while the handle is still set
\* (the child has not exited), is answered at once with success and the same
\* preview URL as every earlier success, and spawns nothing.
C2_SecondStartIsNoOp ==
  [][\A r \in StartReqs :
       (Received(r) /\ started /\ dirExists /\ reactDevServer # Null) =>
         /\ startReq'[r].pc = "done"
         /\ startReq'[r].resp.status = 200
         /\ \A q \in StartReqs : startReq[q].resp.status = 200 =>
                                   startReq'[r].resp.url = startReq[q].resp.url
         /\ UNCHANGED <<proc, reactDevServer>>]_vars

C2_Witness ==
  \E r, q \in StartReqs :
    /\ r # q
    /\ startReq[r].second /\ startReq[r].resp = StartOk /\ proc[r].st = "none"
    /\ startReq[q].resp = StartOk /\ Alive(q)

\* C3: a start request received while the project directory does not exist is
\* answered with 400 in the same step; it starts no install step, spawns no
\* process and leaves the handle unchanged.
C3_StartWithoutProject ==
  [][\A r \in StartReqs :
       (Received(r) /\ ~dirExists) =>
         /\ startReq'[r].pc = "done"
         /\ startReq'[r].resp.status = 400
         /\ startReq'[r].deps = "none"
         /\ UNCHANGED <<proc, reactDevServer, dirExists, scriptsInstalled>>]_vars

C3_Witness ==
  \E r \in StartReqs :
    /\ startReq[r].pc = "done" /\ startReq[r].resp.status = 400
    /\ proc[r].st = "none" /\ ~dirExists

\* C4: every stop request is answered with success; a stop request that finds
\* no live process (or no handle) changes nothing, and a stop request that
\* directly follows another stop request changes nothing.
C4_StopIdempotent ==
  [][stopLog'.inRow # "none" =>
       /\ stopLog'.status = 200
       /\ (reactDevServer = Null \/ LiveProcs = {}) => UNCHANGED progVars
       /\ stopLog.inRow # "none" => UNCHANGED progVars]_vars

C4_Witness ==
  /\ stopLog.inRow = "more" /\ stopLog.status = 200
  /\ reactDevServer = Null
  /\ \E p \in Procs : proc[p].sig # "none"

\* C5: every process that was sent SIGTERM by a stop eventually terminates
\* (it is killed by force if it does not react to the signal).
C5_StoppedProcessTerminates ==
  \A p \in Procs : (Alive(p) /\ proc[p].sig # "none") ~> (proc[p].st = "exited")

\* C6: once the backend has shut down, every child that is alive has been sent
\* a termination signal.
C6_NoOrphanAtShutdown ==
  ~backendUp => \A p \in Procs : Alive(p) => proc[p].sig # "none"

\* C7: a start request received while the install step of init-project is in
\* flight is answered with a precondition error (400) in the same step.
C7_StartDuringInstallRejected ==
  [][\A r \in StartReqs :
       (Received(r) /\ initReq.pc = "install") =>
         /\ startReq'[r].pc = "done"
         /\ startReq'[r].resp.status = 400]_vars

\* C8: a start whose process failed to spawn or exited during the grace delay
\* does not answer with success.
C8_NoSuccessAfterEarlyExit ==
  [][\A r \in StartReqs :
       (startReq[r].pc = "grace" /\ startReq'[r].pc = "done" /\ ~Alive(r)) =>
         startReq'[r].resp.status # 200]_vars

\* C9: a start spawns its process only with the dependencies confirmed: either
\* the check found react-scripts on disk in the spawning step, or the check
\* found it missing and the request's own install step then ended with code 0;
\* after a failed install the request has spawned nothing and answers 500.
C9_SpawnOnlyAfterDeps ==
  /\ [](\A r \in StartReqs :
          /\ proc[r].st # "none" => startReq[r].deps \in {"found", "installed"}
          /\ startReq[r].deps = "missing" =>
               startReq[r].pc = "install" /\ proc[r].st = "none"
          /\ startReq[r].deps = "failed" =>
               /\ proc[r].st = "none"
               /\ startReq[r].pc = "done"
               /\ startReq[r].resp.status = 500)
  /\ [][\A r \in StartReqs :
          SpawnedNow(r) =>
            \/ startReq[r].pc = "check" /\ scriptsInstalled
            \/ startReq[r].pc = "install" /\ startReq[r].deps = "missing"
                                          /\ scriptsInstalled']_vars

C9_Witness ==
  \E r, q \in StartReqs :
    /\ startReq[r].deps = "installed" /\ Alive(r)
    /\ startReq[q].deps = "failed" /\ startReq[q].resp.status = 500

\* C10: a process is spawned only in a step of the handler of a received start
\* request that has not been answered yet, never by an exit event; and the
\* handle, by which the backend takes the dev server for running, never refers
\* to a process that has exited.
C10_NoAutoRestart ==
  /\ [](reactDevServer # Null => Alive(reactDevServer))
  /\ [][\A p \in Procs :
          SpawnedNow(p) =>
            /\ startReq[p].pc \in {"check", "install"}
            /\ startReq'[p].pc = "grace"]_vars

C10_Witness ==
  /\ started
  /\ reactDevServer = Null
  /\ LiveProcs = {}
  /\ \E p \in Procs :
       /\ proc[p].st = "exited"
       /\ startReq[p].resp = StartOk
       /\ \A q \in StartReqs \ {p} : startReq[q].pc = "idle"

\* C11: init-project answers success exactly when its install step exited with
\* code 0; after another exit code or a failed spawn of the install command
\* (code -1) it answers 500 and the step has installed nothing.
C11_InitSuccessIffInstallOk ==
  /\ [](initReq.pc = "done" =>
          /\ initReq.status = 200 <=> initReq.code = 0
          /\ initReq.code # 0 => initReq.status = 500)
  /\ [][(initReq.pc = "install" /\ initReq'.pc = "done" /\ initReq'.code # 0) =>
          UNCHANGED scriptsInstalled]_vars

C11_Witness ==
  /\ initReq.pc = "done" /\ initReq.code = -1 /\ initReq.status = 500
  /\ dirExists /\ ~scriptsInstalled

\* C12: in the awaited sequence init-project, start-dev-server, stop-dev-server
\* with nothing else in between, an install that exits with 0 and a child that
\* spawns and does not crash: init-project answers success with the project
\* and its dependencies on disk; the start answers success with a non-empty URL
\* and leaves exactly one live process, held by the handle; the stop answers
\* success and leaves no handle and no live process.
C12_InitStartStop ==
  /\ seq = "ready" => initReq.status = 200 /\ dirExists /\ scriptsInstalled
  /\ seq = "running" =>
       \E r \in StartReqs :
         /\ startReq[r].resp.status = 200 /\ Len(startReq[r].resp.url) > 0
         /\ LiveProcs = {r} /\ reactDevServer = r
  /\ seq = "stopped" =>
       stopLog.status = 200 /\ reactDevServer = Null /\ LiveProcs = {}

\* C13: a stop issued for one project changes no process of another project,
\* and a start issued for one project while the handle holds the process of
\* another project is not answered without a spawn of its own.
C13_ProjectsIsolated ==
  [][/\ stopLog'.inRow # "none" =>
          \A p \in Procs : startReq[p].project # selected => proc'[p] = proc[p]
     /\ \A r \in StartReqs :
          (/\ Received(r) /\ dirExists
           /\ reactDevServer # Null
           /\ startReq[reactDevServer].project # selected) =>
            startReq'[r].pc # "done"]_vars

\* C24: the close (or error) event of a child that stop-dev-server has already
\* signalled never changes a handle that refers to a child started afterwards.
C24_StaleCloseKeepsHandle ==
  [][\A p \in Procs :
       (/\ Alive(p) /\ proc[p].sig # "none" /\ proc'[p] = Exited
        /\ reactDevServer \notin {Null, p} /\ Alive(reactDevServer)) =>
         reactDevServer' = reactDevServer]_vars

\* C29: the project directory is never deleted while a child process started
\* in it is alive.
C29_NoDeleteUnderLiveProcess ==
  [][dirExists /\ ~dirExists' => LiveProcs = {}]_vars

\* ========================= the chat client =========================
\* Chat.tsx keeps the history in the project store; the Chat component of
\* Panel.tsx keeps it in its own state.  sendMessage and pollJob are the same in
\* both but for the way they append.  A step is the code between two awaits.

\* JavaScript truthiness of an optional string field
Truthy(v) == v \notin {Absent, ""}

\* ---- the project store ----

createDefaultProject(name) ==
  [name |-> name, chatHistory |-> <<Greeting>>, code |-> "", lastModified |-> now]

createProject(name) ==
  /\ LET newProject == createDefaultProject(name)
     IN /\ projects' = [projects EXCEPT ![name] = newProject]
        /\ currentProject' = newProject
  /\ UNCHANGED <<component, messages, isSending, isProcessingRef, send, jobs,
                 fileUpdates,
                 backendVars, selected, uiVars>>

\* the user creates the first project, under the selected name
NewProject == currentProject = NoProject /\ createProject(selected)

\* if (!state.currentProject) return state; otherwise the message is appended
\* to the active project, which is written back under its name
addMessage(message) ==
  IF currentProject = NoProject
    THEN UNCHANGED <<currentProject, projects>>
    ELSE LET updatedProject ==
               [currentProject EXCEPT !.chatHistory = Append(@, message),
                                      !.lastModified = now]
         IN /\ currentProject' = updatedProject
            /\ projects' = [projects EXCEPT ![updatedProject.name] = updatedProject]

\* what the store's actions leave alone
storeFrame == UNCHANGED <<component, messages, isSending, isProcessingRef, send, jobs,
                          fileUpdates, backendVars, selected, uiVars>>

\* const project = get().projects[name]; if (project) currentProject =
\* {...project, lastModified: new Date().toISOString()}
selectProject(name) ==
  /\ currentProject' = IF projects[name] # NoProject
                         THEN [projects[name] EXCEPT !.lastModified = now]
                         ELSE currentProject
  /\ UNCHANGED projects
  /\ storeFrame

\* the active project kept when it is the one deleted
AfterDelete_Keep(name) == currentProject

\* state.currentProject?.name === name ? null : state.currentProject
AfterDelete(name) == IF currentProject.name = name THEN NoProject ELSE currentProject

\* delete newProjects[name], and the active project goes with it
deleteProject(name) ==
  /\ projects' = [projects EXCEPT ![name] = NoProject]
  /\ currentProject' = AfterDelete(name)
  /\ storeFrame

clearCurrentProject ==
  /\ currentProject' = NoProject
  /\ UNCHANGED projects
  /\ storeFrame

\* {...state.currentProject, ...updates}
Merged(project, updates) ==
  [f \in DOMAIN project |-> IF f \in DOMAIN updates THEN updates[f] ELSE project[f]]

\* if (!state.currentProject) return state; otherwise the updated project
\* becomes the active one and is written back under its name
updateCurrentProject(updates) ==
  /\ IF currentProject = NoProject
       THEN UNCHANGED <<currentProject, projects>>
       ELSE LET updatedProject ==
                  [Merged(currentProject, updates) EXCEPT !.lastModified = now]
            IN /\ currentProject' = updatedProject
               /\ projects' = [projects EXCEPT ![updatedProject.name] = updatedProject]
  /\ storeFrame

\* get().updateCurrentProject({chatHistory: [greeting]})
clearChatHistory == updateCurrentProject([chatHistory |-> <<Greeting>>])

\* get().updateCurrentProject({ code: content })
updateFileContent(content) == updateCurrentProject([code |-> content])

\* ---- the component ----

\* the component is rendered for the first time
Mount(c) ==
  /\ component = "none"
  /\ component' = c
  /\ messages' = IF c = "Panel.tsx" THEN <<Greeting>> ELSE messages
  /\ UNCHANGED <<currentProject, projects, isSending, isProcessingRef, send, jobs,
                 fileUpdates, backendVars, selected, uiVars>>

\* Chat.tsx: addMessage(userMsg).  Panel.tsx: setMessages((prev) => ...), which
\* drops the greeting when it is the only entry
AppendUser(userMsg) ==
  IF component = "Chat.tsx"
    THEN addMessage(userMsg) /\ UNCHANGED messages
    ELSE /\ messages' = IF Len(messages) = 1 /\ messages[1] = Greeting
                          THEN <<userMsg>>
                          ELSE Append(messages, userMsg)
         /\ UNCHANGED <<currentProject, projects>>

\* Chat.tsx: addMessage(m).  Panel.tsx: setMessages((prev) => [...prev, m])
AppendReply(m) ==
  IF component = "Chat.tsx"
    THEN addMessage(m) /\ UNCHANGED messages
    ELSE /\ messages' = Append(messages, m)
         /\ UNCHANGED <<currentProject, projects>>

NoAppend == UNCHANGED <<currentProject, projects, messages>>

\* onFileUpdate(path, content), called by step `at` of sendMessage call k
onFileUpdate(k, at, path, content) ==
  fileUpdates' = [fileUpdates EXCEPT ![k] =
                    Append(@, [at |-> at, path |-> path, content |-> content])]


\* ---- the chat server ----

\* The answers to POST /chat: the request fails (fetch or res.json() throws),
\* a non-OK status, a synchronous answer (with or without an updated file), or
\* a code-edit answer, which carries the job id and nothing else.
ChatResponses ==
  {[kind |-> "exception", processingType |-> Absent, jobId |-> Absent,
    updatedFile |-> Absent, updatedContent |-> Absent],
   [kind |-> "notok", processingType |-> Absent, jobId |-> Absent,
    updatedFile |-> Absent, updatedContent |-> Absent],
   [kind |-> "ok", processingType |-> "chat", jobId |-> Absent,
    updatedFile |-> Absent, updatedContent |-> Absent],
   [kind |-> "ok", processingType |-> "chat", jobId |-> Absent,
    updatedFile |-> "f", updatedContent |-> "c"],
   [kind |-> "ok", processingType |-> "code_edit", jobId |-> "id",
    updatedFile |-> Absent, updatedContent |-> Absent]}

\* what a finished job carries: display?, updatedFile?, updatedContent?
JobResults ==
  {[status |-> "done", display |-> "text", updatedFile |-> "f", updatedContent |-> "c"],
   [status |-> "done", display |-> "text", updatedFile |-> "f", updatedContent |-> ""],
   [status |-> "done", display |-> Absent, updatedFile |-> Absent,
    updatedContent |-> Absent],
   [status |-> "error", display |-> Absent, updatedFile |-> Absent,
    updatedContent |-> Absent]}

Terminal(status) == status \in {"done", "error"}

\* the worker takes a job again after it has finished
WorkerTakes_Finished(status) == status \in {"queued", "done", "error"}

\* exactly one worker attempt per job: only a queued job is taken
WorkerTakes(status) == status = "queued"

\* the worker takes a queued job
JobRun(j) ==
  /\ WorkerTakes(jobs[j].status)
  /\ jobs' = [jobs EXCEPT ![j].status = "running"]
  /\ UNCHANGED <<component, currentProject, projects, messages, isSending,
                 isProcessingRef, send, fileUpdates,
                 backendVars, selected, uiVars>>

\* the worker finishes a job, with a result or with an error
JobFinish(j) ==
  /\ jobs[j].status = "running"
  /\ \E result \in JobResults : jobs' = [jobs EXCEPT ![j] = result]
  /\ UNCHANGED <<component, currentProject, projects, messages, isSending,
                 isProcessingRef, send, fileUpdates,
                 backendVars, selected, uiVars>>

\* GET /chat/jobs/{id} answers with the entry of the registry
JobStatus(j) == jobs[j]


\* ---- sendMessage ----

\* the guard left out
SendGuard_Always == TRUE

\* if (... || isSending || isProcessingRef.current) return;
SendGuard == ~isSending /\ ~isProcessingRef

\* sendMessage is called with something to send.  Stopped by the guard it
\* returns at once.  Otherwise the ref is set, the user message is appended and
\* the request is on its way; Chat.tsx returns before that when there is no
\* active project.
\* The user sends the next message once the job of the previous one is no
\* longer polled.
SendBegin(k) ==
  /\ component # "none"
  /\ send[k].pc = "idle"
  /\ k > 1 => send[k - 1].pc \in {"fetch", "done"}
  /\ IF ~SendGuard
       THEN /\ send' = [send EXCEPT ![k].pc = "done", ![k].end = "blocked"]
            /\ NoAppend
            /\ UNCHANGED <<isSending, isProcessingRef>>
       ELSE /\ isProcessingRef' = TRUE
            /\ IF component = "Chat.tsx" /\ currentProject = NoProject
                 THEN /\ send' = [send EXCEPT ![k].pc = "done", ![k].end = "noproject"]
                      /\ NoAppend
                      /\ UNCHANGED isSending
                 ELSE /\ AppendUser([role |-> "user", of |-> k])
                      /\ isSending' = TRUE
                      /\ send' = [send EXCEPT ![k].pc = "fetch"]
  /\ UNCHANGED <<component, jobs, fileUpdates, backendVars, selected, uiVars>>

\* the file update signalled for every answer
SubmitUpdatesFile_Always(data) == TRUE

\* if (data?.updatedFile && data?.updatedContent && onFileUpdate)
SubmitUpdatesFile(data) == Truthy(data.updatedFile) /\ Truthy(data.updatedContent)

\* the assistant message appended whatever the processing type
SubmitReplies_Always(data) == TRUE

\* if (data?.processingType !== "code_edit") addMessage(assistant)
SubmitReplies(data) == data.processingType # "code_edit"

\* if (data?.processingType === "code_edit" && data?.jobId) pollJob()
StartsPolling(data) == data.processingType = "code_edit" /\ Truthy(data.jobId)

\* The answer to POST /chat arrives (or the request fails) and sendMessage runs
\* to its end, finally block included; pollJob, if started, has issued its
\* first status request.
ChatAnswer(k) ==
  /\ send[k].pc = "fetch"
  /\ \E data \in ChatResponses :
       /\ IF data.kind # "ok"
            THEN /\ AppendReply([role |-> "error", of |-> k])
                 /\ send' = [send EXCEPT ![k].pc = "done", ![k].end = data.kind]
                 /\ UNCHANGED <<fileUpdates, jobs>>
            ELSE /\ IF SubmitUpdatesFile(data)
                      THEN onFileUpdate(k, "submit", data.updatedFile, data.updatedContent)
                      ELSE UNCHANGED fileUpdates
                 /\ IF SubmitReplies(data)
                      THEN AppendReply([role |-> "assistant", of |-> k])
                      ELSE NoAppend
                 /\ IF StartsPolling(data)
                      THEN /\ send' = [send EXCEPT ![k].pc = "polling", ![k].polls = 1]
                           /\ jobs' = [jobs EXCEPT ![k].status = "queued"]
                      ELSE /\ send' = [send EXCEPT ![k].pc = "done", ![k].end = "sync"]
                           /\ UNCHANGED jobs
  /\ isSending' = FALSE
  /\ isProcessingRef' = FALSE
  /\ UNCHANGED <<component, backendVars, selected, uiVars>>


\* ---- pollJob ----

\* a loop without a bound
PollExhausted_Never(polls) == FALSE

\* for (let i = 0; i < 60; i++): after the wait of 1500 ms no further request
\* is issued once 60 have been
PollExhausted(polls) == polls >= POLL_ATTEMPTS

\* pollJob is over; how it ended is kept
Ended(how) == [pc |-> "done", polls |-> 0, end |-> how]

\* if (jd?.display) addMessage(assistant, jd.display)
PollReplies(jd) == Truthy(jd.display)

\* if (onFileUpdate && jd?.updatedFile && jd?.updatedContent)
PollUpdatesFile(jd) == Truthy(jd.updatedFile) /\ Truthy(jd.updatedContent)

\* The status request of pollJob is answered (or fails) and the loop runs on to
\* its next request or to its end: an exception is reported in the chat, a
\* non-OK answer breaks the loop, "done" and "error" return, anything else waits
\* 1500 ms and goes round.
PollAnswer(k) ==
  /\ send[k].pc = "polling"
  /\ \E kind \in {"exception", "notok", "ok"} :
       IF kind = "exception"
         THEN /\ AppendReply([role |-> "error", of |-> k])
              /\ send' = [send EXCEPT ![k] = Ended("exception")]
              /\ UNCHANGED fileUpdates
         ELSE IF kind = "notok"
           THEN /\ send' = [send EXCEPT ![k] = Ended("notok")]
                /\ NoAppend
                /\ UNCHANGED fileUpdates
           ELSE LET jd == JobStatus(k)
                IN IF jd.status = "done"
                        THEN /\ IF PollReplies(jd)
                                  THEN AppendReply([role |-> "assistant", of |-> k])
                                  ELSE NoAppend
                             /\ IF PollUpdatesFile(jd)
                                  THEN onFileUpdate(k, "poll", jd.updatedFile,
                                                    jd.updatedContent)
                                  ELSE UNCHANGED fileUpdates
                             /\ send' = [send EXCEPT ![k] = Ended("done")]
                        ELSE IF jd.status = "error"
                          THEN /\ AppendReply([role |-> "error", of |-> k])
                               /\ send' = [send EXCEPT ![k] = Ended("error")]
                               /\ UNCHANGED fileUpdates
                          ELSE /\ send' = [send EXCEPT ![k] =
                                             IF PollExhausted(send[k].polls)
                                               THEN Ended("exhausted")
                                               ELSE [@ EXCEPT !.polls = @ + 1]]
                               /\ NoAppend
                               /\ UNCHANGED fileUpdates
  /\ UNCHANGED <<component, isSending, isProcessingRef, jobs, backendVars, selected, uiVars>>

NextChat ==
  \/ \E c \in {"Chat.tsx", "Panel.tsx"} : Mount(c)
  \/ NewProject
  \/ \E k \in Sends : SendBegin(k)
  \/ \E k \in Sends : ChatAnswer(k)
  \/ \E k \in Sends : PollAnswer(k)
  \/ \E j \in Jobs : JobRun(j)
  \/ \E j \in Jobs : JobFinish(j)

\* the page is loaded; the backend of the dev server is idle, with no project
\* directory
ChatStart == Init /\ ~dirExists

\* the chat client and the chat server
SpecChat == ChatStart /\ [][NextChat]_vars

\* the chat client up to the end of its first sendMessage call and of the
\* pollJob this call starts
NextFirstSend ==
  \/ \E c \in {"Chat.tsx", "Panel.tsx"} : Mount(c)
  \/ NewProject
  \/ SendBegin(1)
  \/ ChatAnswer(1)
  \/ PollAnswer(1)
  \/ JobRun(1)
  \/ JobFinish(1)

\* every status request is answered or fails, and the 1500 ms timer fires
FairFirstSend ==
  /\ ChatStart
  /\ [][NextFirstSend]_vars
  /\ WF_vars(PollAnswer(1))

\* ---- the project store on its own ----

\* addMessage called with the k-th message, in a history that is not full
StoreAddMessage(k) ==
  /\ Len(currentProject.chatHistory) <= MaxSends
  /\ addMessage([role |-> "user", of |-> k])
  /\ storeFrame

\* time passes
Tick ==
  /\ now < MaxTime
  /\ now' = now + 1
  /\ UNCHANGED <<backendVars, selected, chatVars, panelVars>>

NextStore ==
  \/ \E n \in Projects : createProject(n)
  \/ \E n \in Projects : selectProject(n)
  \/ \E n \in Projects : deleteProject(n)
  \/ clearCurrentProject
  \/ \E c \in {"", "x"} : updateFileContent(c)
  \/ clearChatHistory
  \/ \E k \in Sends : StoreAddMessage(k)
  \/ Tick

\* the project store under any sequence of its actions
SpecStore == ChatStart /\ [][NextStore]_vars

\* ---- a job polled while the user switches projects ----

\* ProjectSelector: if (projects[trimmedName]) { alert(...); return; }
\* createProject(trimmedName)
handleCreateProject(n) == projects[n] = NoProject /\ createProject(n)

\* ProjectSelector: a click on an entry of the list of projects
handleSelectProject(n) == projects[n] # NoProject /\ selectProject(n)

\* ProjectSelector: the delete button of an entry, confirmed
handleDeleteProject(n) == projects[n] # NoProject /\ deleteProject(n)

NextSwitch ==
  \/ Mount("Chat.tsx")
  \/ \E n \in Projects : handleCreateProject(n)
  \/ \E n \in Projects : handleSelectProject(n)
  \/ \E n \in Projects : handleDeleteProject(n)
  \/ SendBegin(1)
  \/ ChatAnswer(1)
  \/ PollAnswer(1)
  \/ JobRun(1)
  \/ JobFinish(1)

\* Chat.tsx up to the end of its first sendMessage call and of the pollJob this
\* call starts, with a user who creates, selects and deletes projects
SpecSwitch == ChatStart /\ [][NextSwitch]_vars

ChatTypeOK ==
  /\ component \in {"none", "Chat.tsx", "Panel.tsx"}
  /\ isSending \in BOOLEAN /\ isProcessingRef \in BOOLEAN
  /\ \A k \in Sends : /\ send[k].pc \in {"idle", "fetch", "polling", "done"}
                       /\ send[k].polls \in 0..POLL_ATTEMPTS
  /\ \A j \in Jobs : jobs[j].status \in {"none", "queued", "running", "done", "error"}


\* ===================== properties of the chat client =====================

\* the chat history the component shows
History == IF component = "Panel.tsx" THEN messages ELSE currentProject.chatHistory

\* the sendMessage call k was answered with a code-edit job
IsJob(k) == jobs[k].status # "none"

\* the replies in the history that belong to call k
Replies(k, roles) ==
  {i \in DOMAIN History : History[i].of = k /\ History[i].role \in roles}

IsPrefix(h1, h2) == Len(h1) <= Len(h2) /\ SubSeq(h2, 1, Len(h1)) = h1

\* C14: when pollJob ends because its 60 attempts are used up with the job
\* still not terminal, a message that tells the user is in the chat history.
C14_TimeoutSurfaced ==
  \A k \in Sends :
    send[k].end = "exhausted" => Replies(k, {"assistant", "error"}) # {}

\* C15: pollJob issues at most 60 status requests; it goes on to the next
\* request only after an answer that shows the job neither done nor errored and
\* with fewer than 60 requests issued, and otherwise it ends in the same step;
\* with every request answered (or failing) it ends.
C15_PollTerminates ==
  /\ [](\A k \in Sends : send[k].polls <= POLL_ATTEMPTS)
  /\ [][\A k \in Sends :
          (send[k].pc = "polling" /\ send'[k] # send[k]) =>
            IF send'[k].pc = "polling"
              THEN /\ send'[k].polls = send[k].polls + 1
                   /\ send[k].polls < POLL_ATTEMPTS
                   /\ ~Terminal(jobs[k].status)
              ELSE /\ send'[k].pc = "done"
                   /\ send'[k].end \in {"done", "error", "notok", "exception", "exhausted"}
                   /\ send'[k].end \in {"done", "error"} => jobs[k].status = send'[k].end
                   /\ send'[k].end = "exhausted" =>
                        send[k].polls = POLL_ATTEMPTS /\ ~Terminal(jobs[k].status)]_vars
  /\ \A k \in Sends : (send[k].pc = "polling") ~> (send[k].pc = "done")

C15_Witness ==
  \E k \in Sends : send[k].end = "exhausted" /\ jobs[k].status = "done"

\* C16 (as claimed): a call answered with a code-edit job has no reply in the
\* history while it is polled, a reply (assistant or error) of it is in the
\* history only after a poll has observed the status done, and at most one.
C16_ReplyOnlyAfterDone ==
  \A k \in Sends :
    IsJob(k) =>
      /\ send[k].pc = "polling" => Replies(k, {"assistant", "error"}) = {}
      /\ Replies(k, {"assistant", "error"}) # {} => send[k].end = "done"
      /\ Cardinality(Replies(k, {"assistant", "error"})) <= 1

\* C16 (amended): a call answered with a code-edit job has no reply in the
\* history while it is polled; an assistant reply of it is in the history only
\* after a poll has observed the status done, an error reply only after a poll
\* has observed the status error or has failed with an exception; and it has at
\* most one reply, assistant or error.
C16_ReplyOnlyAfterPollEnd ==
  \A k \in Sends :
    IsJob(k) =>
      /\ send[k].pc = "polling" => Replies(k, {"assistant", "error"}) = {}
      /\ Replies(k, {"assistant"}) # {} => send[k].end = "done"
      /\ Replies(k, {"error"}) # {} => send[k].end \in {"error", "exception"}
      /\ Cardinality(Replies(k, {"assistant", "error"})) <= 1

C16_Witness ==
  \E k \in Sends :
    /\ IsJob(k) /\ send[k].end = "done"
    /\ Cardinality(Replies(k, {"assistant"})) = 1
    /\ \E i \in DOMAIN History : History[i] = [role |-> "user", of |-> k]

\* C17: every step leaves each chat history (the component's own, the active
\* project's and each stored project's) a prefix of what it is after the step.
C17_HistoryAppendOnly ==
  [][/\ IsPrefix(messages, messages')
     /\ IsPrefix(currentProject.chatHistory, currentProject'.chatHistory)
     /\ \A n \in Projects :
          IsPrefix(projects[n].chatHistory, projects'[n].chatHistory)]_vars

\* C18: after a poll has observed the status done with updatedFile and
\* updatedContent both in the answer, onFileUpdate has been called by pollJob
\* exactly once, with that path and content; pollJob has not called it for a
\* call that did not end with an observed done.
C18_FileUpdateOnDone ==
  \A k \in Sends :
    LET byPoll == SelectSeq(fileUpdates[k], LAMBDA u : u.at = "poll")
    IN /\ (/\ send[k].end = "done"
           /\ jobs[k].updatedFile # Absent
           /\ jobs[k].updatedContent # Absent) =>
            byPoll = <<[at |-> "poll", path |-> jobs[k].updatedFile,
                        content |-> jobs[k].updatedContent]>>
       /\ send[k].end # "done" => byPoll = <<>>

Rank(status) ==
  CASE status = "none" -> 0
    [] status = "queued" -> 1
    [] status = "running" -> 2
    [] OTHER -> 3

C22_OneSendAtATime ==
  /\ [](Cardinality({k \in Sends : send[k].pc = "fetch"}) <= 1)
  /\ [][(isSending \/ isProcessingRef) =>
         \A k \in Sends :
           send[k].pc = "idle" /\ send'[k].pc # "idle" =>
             /\ send'[k].pc = "done" /\ send'[k].end = "blocked"
             /\ messages' = messages
             /\ currentProject' = currentProject /\ projects' = projects
             /\ isSending' = isSending /\ isProcessingRef' = isProcessingRef]_vars

\* a sendMessage was stopped by the guard while the /chat request of the one
\* before it was under way
C22_Witness ==
  \E j, k \in Sends : send[j].pc = "fetch" /\ send[k].end = "blocked"

\* C23: whenever no sendMessage call is under way, isProcessingRef is false.
C23_GuardReleased ==
  (\A k \in Sends : send[k].pc # "fetch") => ~isProcessingRef

\* the messages of job k with a role in roles, in the history of project n
RepliesIn(n, k, roles) ==
  {i \in 1..Len(projects[n].chatHistory) :
     projects[n].chatHistory[i].of = k /\ projects[n].chatHistory[i].role \in roles}

\* C25: a reply to a background job (assistant or error message) is in the
\* history of a project only together with the user message of that job, that
\* is, in the project from which the job was submitted.
C25_ReplyInSubmittingProject ==
  \A n \in Projects : \A k \in Sends :
    (IsJob(k) /\ RepliesIn(n, k, {"assistant", "error"}) # {}) =>
      RepliesIn(n, k, {"user"}) # {}

\* C30: currentProject is null, or its name is a key of projects and it agrees
\* with the project under this name on every field except lastModified.
C30_CurrentProjectInSync ==
  \/ currentProject = NoProject
  \/ /\ currentProject.name \in Projects
     /\ projects[currentProject.name] # NoProject
     /\ \A f \in DOMAIN currentProject \ {"lastModified"} :
          currentProject[f] = projects[currentProject.name][f]

\* a project with messages and code of its own was selected later than it was
\* last modified
C30_Witness ==
  /\ currentProject # NoProject
  /\ Len(currentProject.chatHistory) > 1
  /\ currentProject.code = "x"
  /\ currentProject.lastModified > projects[currentProject.name].lastModified

\* ========================= PanelPreview =========================
\* One instance of the component, from its first render to its unmount.

Urls == {"", "u1", "u2"}

previewFrame == UNCHANGED <<backendVars, selected, chatVars, now, codeVars>>

\* ws.close(): the closing handshake starts; the close event comes later
Close(st) == IF st = "open" THEN "closing" ELSE st

\* the cleanup of the effect: wsRef.current?.close(); wsRef.current = null.
\* An effect that returned early (no devServerUrl) has no cleanup.
CleanupSock == IF previewUrl # "" /\ wsRef # Null
                 THEN [sock EXCEPT ![wsRef] = Close(@)] ELSE sock
CleanupRef == IF previewUrl # "" THEN Null ELSE wsRef

NewSocket == CHOOSE s \in Sockets : sock[s] = "none" /\ \A t \in 1..(s - 1) : sock[t] # "none"

\* the effect: if (!devServerUrl) return; const ws = new WebSocket(WS_URL);
\* wsRef.current = ws; run on the sockets and the ref that the cleanup left
PreviewEffect(url, socks, ref) ==
  IF url = ""
    THEN sock' = socks /\ wsRef' = ref
    ELSE /\ \E s \in Sockets : sock[s] = "none"
         /\ sock' = [socks EXCEPT ![NewSocket] = "open"]
         /\ wsRef' = NewSocket

\* the first render
PreviewMount(url) ==
  /\ ~previewMounted /\ \A s \in Sockets : sock[s] = "none"
  /\ previewMounted' = TRUE
  /\ previewUrl' = url
  /\ PreviewEffect(url, sock, wsRef)
  /\ UNCHANGED <<logs, arrived>>
  /\ previewFrame

\* devServerUrl changes: the cleanup of the last effect, then the effect
UrlChange(url) ==
  /\ previewMounted /\ url # previewUrl
  /\ previewUrl' = url
  /\ PreviewEffect(url, CleanupSock, CleanupRef)
  /\ UNCHANGED <<previewMounted, logs, arrived>>
  /\ previewFrame

\* the component unmounts: the cleanup of the last effect
PreviewUnmount ==
  /\ previewMounted
  /\ previewMounted' = FALSE
  /\ sock' = CleanupSock
  /\ wsRef' = CleanupRef
  /\ UNCHANGED <<previewUrl, logs, arrived>>
  /\ previewFrame

\* ws.onclose = () => { wsRef.current = null; }
OnSocketClose(ref, s) == Null

\* the close event of a socket: the end of the closing handshake, or a
\* connection that the server closed or that failed
SocketClosed(s) ==
  /\ sock[s] \in {"open", "closing"}
  /\ sock' = [sock EXCEPT ![s] = "closed"]
  /\ wsRef' = OnSocketClose(wsRef, s)
  /\ UNCHANGED <<previewMounted, previewUrl, logs, arrived>>
  /\ previewFrame

\* the oldest entries kept
Keep_Oldest(next) ==
  IF Len(next) > LOG_LIMIT THEN SubSeq(next, 1, LOG_LIMIT) ELSE next

\* next.length > 1000 ? next.slice(next.length - 1000) : next
Keep(next) ==
  IF Len(next) > LOG_LIMIT THEN SubSeq(next, Len(next) - LOG_LIMIT + 1, Len(next)) ELSE next

\* ws.onmessage of an open socket: a message of type "log" is appended to the
\* list, any other message is ignored.  A log event is known by its number
\* since the last Clear.
OnMessage(s) ==
  /\ previewMounted /\ sock[s] = "open"
  /\ Len(arrived) < MaxLogs
  /\ \E type \in {"log", "other"} :
       IF type = "log"
         THEN /\ logs' = Keep(Append(logs, Len(arrived) + 1))
              /\ arrived' = Append(arrived, Len(arrived) + 1)
         ELSE UNCHANGED <<logs, arrived>>
  /\ UNCHANGED <<previewMounted, previewUrl, sock, wsRef>>
  /\ previewFrame

\* const clearLogs = () => setLogs([])
clearLogs ==
  /\ previewMounted
  /\ logs' = <<>>
  /\ arrived' = <<>>
  /\ UNCHANGED <<previewMounted, previewUrl, sock, wsRef>>
  /\ previewFrame

NextSockets ==
  \/ \E url \in Urls : PreviewMount(url)
  \/ \E url \in Urls : UrlChange(url)
  \/ PreviewUnmount
  \/ \E s \in Sockets : SocketClosed(s)

\* PanelPreview and its sockets
SpecSockets == ChatStart /\ [][NextSockets]_vars

NextLogs ==
  \/ PreviewMount("u1")
  \/ \E s \in Sockets : OnMessage(s)
  \/ clearLogs

\* PanelPreview with a dev server, and the log events of its socket
SpecLogs == ChatStart /\ [][NextLogs]_vars

\* the last n entries of a sequence
Last(seq_, n) == IF Len(seq_) > n THEN SubSeq(seq_, Len(seq_) - n + 1, Len(seq_)) ELSE seq_

\* C21: the log list never holds more than 1000 entries, and it is the most
\* recent (at most 1000) log events received since the last Clear, in the
\* order of their arrival.
C21_LogsAreLatest ==
  /\ Len(logs) <= LOG_LIMIT
  /\ logs = Last(arrived, LOG_LIMIT)

\* more than 1000 log events were received since the last Clear
C21_Witness == Len(arrived) > LOG_LIMIT /\ Len(logs) = LOG_LIMIT /\ logs[1] > 1

\* C26: every socket that is open is the one wsRef refers to, in a mounted
\* component.
C26_NoSocketLeak ==
  \A s \in Sockets : sock[s] = "open" => previewMounted /\ wsRef = s

\* ========================= PanelCode =========================
\* One run of the auto-refresh effect, from mount to unmount.

codeFrame == UNCHANGED <<backendVars, selected, chatVars, now, previewVars>>

PendingTimers == {t \in Timers : timer[t].st = "pending"}

NextTimer == CHOOSE t \in Timers : timer[t].st = "none" /\ \A u \in 1..(t - 1) : timer[u].st # "none"

CanSchedule == \E t \in Timers : timer[t].st = "none"

\* schedule(delayMs): if (stopped) return; timerId = window.setTimeout(tick, delayMs)
schedule(delayMs, timers) ==
  IF codeState' = "unmounted"
    THEN timer' = timers /\ UNCHANGED timerId
    ELSE /\ CanSchedule
         /\ timer' = [timers EXCEPT ![NextTimer] = [st |-> "pending", delay |-> delayMs]]
         /\ timerId' = NextTimer

\* clearTimeout(id): a timer that has fired is not changed
clearTimeout(id) ==
  IF timer[id].st = "pending" THEN [timer EXCEPT ![id].st = "cleared"] ELSE timer

\* the effect runs: if (document.visibilityState === "visible") schedule(0);
\* and the listener is registered
CodeMount ==
  /\ codeState = "none"
  /\ codeState' = "mounted"
  /\ IF docVisible THEN schedule(0, timer) ELSE UNCHANGED <<timer, timerId>>
  /\ UNCHANGED <<docVisible, inFlight>>
  /\ codeFrame

\* handleVisibility, with the visibility the document has now
handleVisibility(visible) ==
  IF visible
    THEN IF timerId = Null THEN schedule(0, timer) ELSE UNCHANGED <<timer, timerId>>
    ELSE IF timerId # Null
           THEN timer' = clearTimeout(timerId) /\ timerId' = Null
           ELSE UNCHANGED <<timer, timerId>>

\* the document is hidden or shown; the listener runs while it is registered
VisibilityChange ==
  /\ docVisible' = ~docVisible
  /\ UNCHANGED <<codeState, inFlight>>
  /\ IF codeState = "mounted"
       THEN handleVisibility(docVisible')
       ELSE UNCHANGED <<timer, timerId>>
  /\ codeFrame

\* a timer fires: tick calls refreshFileTreeSilently and awaits it
TimerFires(t) ==
  /\ timer[t].st = "pending"
  /\ timer' = [timer EXCEPT ![t].st = "fired"]
  /\ inFlight' = inFlight + 1
  /\ UNCHANGED <<codeState, docVisible, timerId>>
  /\ codeFrame

\* refreshFileTreeSilently settles (resolved or rejected): finally schedule(7000)
RefreshDone ==
  /\ inFlight > 0
  /\ inFlight' = inFlight - 1
  /\ UNCHANGED <<codeState, docVisible>>
  /\ schedule(REFRESH_DELAY, timer)
  /\ codeFrame

\* the cleanup of the effect: stopped = true; if (timerId != null)
\* clearTimeout(timerId); the listener is removed
CodeUnmount ==
  /\ codeState = "mounted"
  /\ codeState' = "unmounted"
  /\ timer' = IF timerId # Null THEN clearTimeout(timerId) ELSE timer
  /\ UNCHANGED <<docVisible, timerId, inFlight>>
  /\ codeFrame

NextCode ==
  \/ CodeMount
  \/ VisibilityChange
  \/ \E t \in Timers : TimerFires(t)
  \/ RefreshDone
  \/ CodeUnmount

\* PanelCode's auto-refresh under any sequence of visibility changes
SpecCode == ChatStart /\ [][NextCode]_vars

\* C27: at any time at most one refreshFileTreeSilently call is in flight or
\* one refresh timer is pending.
C27_SingleRefreshChain == inFlight + Cardinality(PendingTimers) <= 1

\* C28: while PanelCode is mounted and the document is hidden no refresh timer
\* is pending, and no refresh starts while the document is hidden.
C28_NoRefreshWhileHidden ==
  /\ [](codeState = "mounted" /\ ~docVisible => PendingTimers = {})
  /\ [][~docVisible => inFlight' <= inFlight]_vars
====
